---- MODULE Spec2Model ----
(***************************************************************************)
(* Model of the URL module of the manager API (src/unnamed/part_000):      *)
(* the args codec (parseArgs / stringifyArgs), the location parser         *)
(* (initialUrlSupport) with its single-slot memo prevParams, the query     *)
(* parameter API (getQueryParam / setQueryParams) and the three event      *)
(* handlers registered by initModule (SET_STORIES, SET_CURRENT_STORY,      *)
(* STORY_ARGS_UPDATED) with their per-story initialArgs map.               *)
(*                                                                         *)
(* Strings are sequences of symbols.  A symbol is either one of the        *)
(* delimiter characters ";" ":" "=" "." "&" or a run of characters holding *)
(* none of them, so "a.b:1" is <<"a", ".", "b", ":", "1">>.                *)
(***************************************************************************)
EXTENDS Integers, Sequences, FiniteSets, TLC

(***************************************************************************)
(* String primitives (String.prototype.split / replace / join, indexOf).   *)
(***************************************************************************)

\* Position of the first occurrence of symbol c in s, 0 when there is none.
IndexOf(s, c) ==
  IF \E i \in 1..Len(s) : s[i] = c
  THEN CHOOSE i \in 1..Len(s) : s[i] = c /\ \A j \in 1..(i - 1) : s[j] # c
  ELSE 0

\* s.split(c): always at least one part, "".split(c) is [""].
RECURSIVE Split(_, _)
Split(s, c) ==
  LET p == IndexOf(s, c)
  IN IF p = 0 THEN <<s>>
     ELSE <<SubSeq(s, 1, p - 1)>> \o Split(SubSeq(s, p + 1, Len(s)), c)

\* s.replace(c, r) with a string pattern: only the first occurrence.
ReplaceFirst(s, c, r) ==
  LET p == IndexOf(s, c)
  IN IF p = 0 THEN s ELSE [s EXCEPT ![p] = r]

\* parts.join(c)
RECURSIVE Join(_, _)
Join(parts, c) ==
  IF Len(parts) = 0 THEN <<>>
  ELSE IF Len(parts) = 1 THEN parts[1]
  ELSE parts[1] \o <<c>> \o Join(Tail(parts), c)

\* parts.map(part => part.replace(c, r))
ReplaceFirstInEach(parts, c, r) ==
  [i \in 1..Len(parts) |-> ReplaceFirst(parts[i], c, r)]

(***************************************************************************)
(* Args values.  A value is a record [t, s, o]: a leaf of JavaScript type  *)
(* t ("str", "num", "bool") whose String() form is s, or a nested object   *)
(* (t = "obj") whose entries o map a key to a leaf [t, s].  Two args maps  *)
(* are deep-equal (fast-deep-equal) exactly when they are equal here: the  *)
(* number 1 and the string "1" differ in t.                                *)
(***************************************************************************)
EmptyMap == [k \in {} |-> 0]

Str(s) == [t |-> "str", s |-> s, o |-> EmptyMap]
Num(s) == [t |-> "num", s |-> s, o |-> EmptyMap]
Bool(s) == [t |-> "bool", s |-> s, o |-> EmptyMap]
Obj(o) == [t |-> "obj", s |-> <<>>, o |-> o]

deepEqual(x, y) == x = y

\* Object keys in a fixed enumeration order (Object.entries / qs key order).
KeyOrder == <<"a", "b", "k", "y">>
Keys(m) == SelectSeq(KeyOrder, LAMBDA k : k \in DOMAIN m)

(***************************************************************************)
(* qs.stringify(args, {allowDots: true, delimiter: ';', encode: false}):   *)
(* one "key=value" part per leaf, "key.sub=value" per entry of a nested    *)
(* object (an empty nested object yields no part), joined by ";".          *)
(***************************************************************************)
qsStringifyValue(k, v) ==
  IF v.t = "obj"
  THEN [i \in 1..Len(Keys(v.o)) |->
          <<k, ".", Keys(v.o)[i], "=">> \o v.o[Keys(v.o)[i]].s]
  ELSE << <<k, "=">> \o v.s >>

RECURSIVE Concat(_)
Concat(seqs) == IF Len(seqs) = 0 THEN <<>> ELSE seqs[1] \o Concat(Tail(seqs))

qsStringify(args) ==
  Join(Concat([i \in 1..Len(Keys(args)) |->
                 qsStringifyValue(Keys(args)[i], args[Keys(args)[i]])]), ";")

stringifyArgs(args) ==
  Join(ReplaceFirstInEach(Split(qsStringify(args), ";"), "=", ":"), ";")

(***************************************************************************)
(* qs.parse(str, {allowDots: true, delimiter: ';'}): split on ";", cut     *)
(* each part at its first "=" (no "=": the whole part is the key and the   *)
(* value is ""), drop parts with an empty key, split the key on "." into a *)
(* path.  Every decoded leaf is a string.  Paths of one or two components  *)
(* are modelled (a flat key or one level of nesting), and the inputs never *)
(* repeat a key.                                                           *)
(***************************************************************************)
qsPart(part) ==
  LET p == IndexOf(part, "=")
      key == IF p = 0 THEN part ELSE SubSeq(part, 1, p - 1)
      val == IF p = 0 THEN <<>> ELSE SubSeq(part, p + 1, Len(part))
  IN [path |-> Split(key, "."), key |-> key, val |-> val]

qsKeep(seg) ==
  /\ Len(seg.key) > 0
  /\ Len(seg.path) \in {1, 2}
  /\ \A i \in 1..Len(seg.path) : Len(seg.path[i]) = 1

qsParse(str) ==
  LET parts == Split(str, ";")
      segs == {seg \in {qsPart(parts[i]) : i \in 1..Len(parts)} : qsKeep(seg)}
      roots == {seg.path[1][1] : seg \in segs}
      flat(r) == {seg \in segs : seg.path = << <<r>> >>}
      under(r) == {seg \in segs : Len(seg.path) = 2 /\ seg.path[1] = <<r>>}
  IN [r \in roots |->
        IF flat(r) # {}
        THEN Str((CHOOSE seg \in flat(r) : TRUE).val)
        ELSE Obj([c \in {seg.path[2][1] : seg \in under(r)} |->
                    [t |-> "str",
                     s |-> (CHOOSE seg \in under(r) : seg.path[2] = <<c>>).val]])]

parseArgs(argsString) ==
  qsParse(Join(ReplaceFirstInEach(Split(argsString, ";"), ":", "="), ";"))


(***************************************************************************)
(* State.                                                                  *)
(***************************************************************************)
VARIABLES
  prevParams,   \* module-level memo of the parser: [def, ref, map]
  returned,     \* what the last initialUrlSupport call returned
  store,        \* store.getState(): [path, customQueryParams |-> [def, map]]
  initialArgs,  \* initialArgs of initModule: story id -> [def, args]
  nextRef,      \* identity given to the next object the parser allocates
  last,         \* the operation handled last, its inputs, and (for the parser)
                \* whether it returned the memoized object
  effects,      \* the calls the last operation made on its collaborators
  cArgs,        \* codec round trip: the args map encoded
  cString,      \* codec round trip: stringifyArgs(cArgs)
  cDecoded,     \* codec round trip: parseArgs(cString)
  cStage,       \* codec round trip: "args", "encoded" or "decoded"
  stories,      \* fullAPI's story store: story id -> the story's current args
  observed      \* per story id, which of SET_STORIES / SET_CURRENT_STORY were
                \* handled for it, which came first and the args it carried

vars == <<prevParams, returned, store, initialArgs, nextRef, last, effects,
          cArgs, cString, cDecoded, cStage, stories, observed>>

urlVars == <<prevParams, returned, store, initialArgs, nextRef, last, effects>>
codecVars == <<cArgs, cString, cDecoded, cStage>>
storyVars == <<stories, observed>>

\* Objects the parser may allocate in one run (caps nextRef).
MaxObjects == 3

Undefined == [def |-> FALSE, map |-> EmptyMap]
Defined(m) == [def |-> TRUE, map |-> m]

\* {...a, ...b}: b's entries override a's key by key.
Spread(a, b) ==
  [k \in DOMAIN a \cup DOMAIN b |-> IF k \in DOMAIN b THEN b[k] ELSE a[k]]

Without(m, ks) == [k \in DOMAIN m \ ks |-> m[k]]

(***************************************************************************)
(* initialUrlSupport: the location parser.                                 *)
(***************************************************************************)
KnownKeys == {"full", "panel", "nav", "addons", "panelRight", "stories",
              "addonPanel", "selectedKind", "selectedStory", "path"}

\* A destructured query key: <<>> stands for undefined (and for "").
Get(query, k) == IF k \in DOMAIN query THEN query[k] ELSE <<>>
Truthy(s) == s # <<>>

\* const {full, ..., path: queryPath, ...otherParams} = query
otherParams(query) == Without(query, KnownKeys)

\* The layout additions, assigned in source order: the current scheme
\* (full, panel, nav) first, the legacy scheme (addons, panelRight, stories)
\* after it, a later assignment overwriting an earlier one.
\* The includes test dropped: every panel value but "0" is taken as a position.
additionCurrentAnyPanel(query, addition) ==
  LET panel == Get(query, "panel")
      a1 == IF Get(query, "full") = <<"1">>
            THEN Spread(addition, [isFullscreen |-> "true"]) ELSE addition
      a2 == IF Truthy(panel) /\ panel # <<"0">>
            THEN Spread(a1, [panelPosition |-> panel[1]])
            ELSE IF Truthy(panel) THEN Spread(a1, [showPanel |-> "false"])
            ELSE a1
  IN IF Get(query, "nav") = <<"0">>
     THEN Spread(a2, [showNav |-> "false"]) ELSE a2

additionCurrent(query, addition) ==
  LET full == Get(query, "full")
      panel == Get(query, "panel")
      nav == Get(query, "nav")
      a1 == IF full = <<"1">>
            THEN Spread(addition, [isFullscreen |-> "true"]) ELSE addition
      a2 == IF Truthy(panel) /\ panel \in {<<"right">>, <<"bottom">>}
            THEN Spread(a1, [panelPosition |-> panel[1]])
            ELSE IF Truthy(panel) /\ panel = <<"0">>
            THEN Spread(a1, [showPanel |-> "false"])
            ELSE a1
  IN IF nav = <<"0">> THEN Spread(a2, [showNav |-> "false"]) ELSE a2

additionLegacy(query, addition) ==
  LET a1 == IF Get(query, "addons") = <<"0">>
            THEN Spread(addition, [showPanel |-> "false"]) ELSE addition
      a2 == IF Get(query, "panelRight") = <<"1">>
            THEN Spread(a1, [panelPosition |-> "right"]) ELSE a1
  IN IF Get(query, "stories") = <<"0">>
     THEN Spread(a2, [showNav |-> "false"]) ELSE a2

\* The legacy block moved above the current-scheme block.
layoutAdditionLegacyFirst(query) ==
  additionCurrent(query, additionLegacy(query, EmptyMap))

layoutAddition(query) == additionLegacy(query, additionCurrent(query, EmptyMap))

\* sanitize and toId of @storybook/csf on the names used here.
sanitize(s) ==
  IF s = <<"Button">> THEN <<"button">>
  ELSE IF s = <<"Primary">> THEN <<"primary">>
  ELSE s
toId(kind, name) == sanitize(kind) \o <<"--">> \o sanitize(name)

\* The selectedStory branch dropped: the kind alone decides.
resolveStoryIdKindOnly(query, storyIdFromUrl) ==
  IF Truthy(storyIdFromUrl) THEN storyIdFromUrl
  ELSE IF Truthy(Get(query, "selectedKind"))
  THEN sanitize(Get(query, "selectedKind"))
  ELSE <<>>

resolveStoryId(query, storyIdFromUrl) ==
  LET selectedKind == Get(query, "selectedKind")
      selectedStory == Get(query, "selectedStory")
  IN IF Truthy(storyIdFromUrl) THEN storyIdFromUrl
     ELSE IF Truthy(selectedKind) /\ Truthy(selectedStory)
     THEN toId(selectedKind, selectedStory)
     ELSE IF Truthy(selectedKind) THEN sanitize(selectedKind)
     ELSE <<>>

\* The comparison dropped: once set, the memo is returned for every location.
memoParamsAlwaysPrev(prev, fresh) == IF prev.def THEN prev ELSE fresh

\* The memo dropped: every call returns its own otherParams.
memoParamsAlwaysFresh(prev, fresh) == fresh

\* deepEqual(prevParams, otherParams) ? prevParams : otherParams, where
\* fresh is the newly allocated otherParams object.
memoParams(prev, fresh) ==
  IF prev.def /\ deepEqual(prev.map, fresh.map) THEN prev ELSE fresh

queryFromLocation(location) == location.query

NoEffects == [navigate |-> <<>>, setState |-> <<>>, updateStoryArgs |-> <<>>,
              threw |-> FALSE, returns |-> <<>>]

\* state is the {location, path, storyId} part of ModuleArgs.state.
initialUrlSupport(state) ==
  LET query == queryFromLocation(state.location)
      fresh == [def |-> TRUE, ref |-> nextRef, map |-> otherParams(query)]
      customQueryParams == memoParams(prevParams, fresh)
  IN /\ customQueryParams.ref = nextRef => nextRef < MaxObjects
     /\ prevParams' = customQueryParams
     /\ nextRef' = IF customQueryParams.ref = nextRef THEN nextRef + 1 ELSE nextRef
     /\ returned' = [layout |-> layoutAddition(query),
                     selectedPanel |-> Get(query, "addonPanel"),
                     location |-> state.location,
                     path |-> state.path,
                     customQueryParams |-> customQueryParams,
                     storyId |-> resolveStoryId(query, state.storyId)]
     \* init returns this as the module's state, which the store then holds.
     /\ store' = [path |-> state.path,
                  customQueryParams |-> Defined(customQueryParams.map)]
     /\ last' = [op |-> "init", id |-> "", story |-> FALSE, args |-> EmptyMap,
                 input |-> [storyId |-> state.storyId],
                 reused |-> customQueryParams.ref # nextRef]
     /\ effects' = NoEffects
     /\ UNCHANGED <<initialArgs, codecVars>>

(***************************************************************************)
(* The query parameter API.                                                *)
(***************************************************************************)

\* A value that may be undefined.
NoValue == [def |-> FALSE, v |-> <<>>]
SomeValue(v) == [def |-> TRUE, v |-> v]

\* The guard dropped: an empty string is returned where there is no value.
getQueryParamEmpty(key) == SomeValue(Get(store.customQueryParams.map, key))

\* customQueryParams ? customQueryParams[key] : undefined
getQueryParam(key) ==
  LET customQueryParams == store.customQueryParams
  IN IF customQueryParams.def /\ key \in DOMAIN customQueryParams.map
     THEN SomeValue(customQueryParams.map[key])
     ELSE NoValue

\* The snapshot getUrlState returns, on the parts of the store kept here.
getUrlState == [path |-> store.path, queryParams |-> store.customQueryParams]

\* A call of api.getQueryParam(key): the value is handed to the caller.
CallGetQueryParam(key) ==
  /\ effects' = [NoEffects EXCEPT !.returns = <<getQueryParam(key)>>]
  /\ last' = [op |-> "getQueryParam", id |-> "", story |-> FALSE,
              args |-> EmptyMap, input |-> [key |-> key], reused |-> FALSE]
  /\ UNCHANGED <<prevParams, returned, store, initialArgs, nextRef, codecVars>>

\* A call of api.getUrlState().
CallGetUrlState ==
  /\ effects' = [NoEffects EXCEPT !.returns = <<getUrlState>>]
  /\ last' = [op |-> "getUrlState", id |-> "", story |-> FALSE,
              args |-> EmptyMap, input |-> EmptyMap, reused |-> FALSE]
  /\ UNCHANGED <<prevParams, returned, store, initialArgs, nextRef, codecVars>>

\* The null test dropped: a null entry is merged as an empty value.
nonNullEntriesAll(input) == [k \in DOMAIN input |-> input[k].v]

\* The reduce of setQueryParams: the entries of input whose value is not null.
nonNullEntries(input) ==
  [k \in {x \in DOMAIN input : ~input[x].isNull} |-> input[k].v]

\* The equality gate dropped: every call commits.
equalParamsNever(customQueryParams, update) == FALSE

\* deepEqual(customQueryParams, update): update is always an object,
\* customQueryParams may be undefined.
equalParams(customQueryParams, update) ==
  customQueryParams.def /\ deepEqual(customQueryParams.map, update)

setQueryParams(input) ==
  LET customQueryParams == store.customQueryParams
      update == Spread(customQueryParams.map, nonNullEntries(input))
      equal == equalParams(customQueryParams, update)
  IN /\ store' = IF ~equal
                 THEN [store EXCEPT !.customQueryParams = Defined(update)]
                 ELSE store
     /\ effects' = [NoEffects EXCEPT
                      !.setState = IF ~equal THEN <<update>> ELSE <<>>]
     /\ last' = [op |-> "setQueryParams", id |-> "", story |-> FALSE,
                 args |-> EmptyMap, input |-> input, reused |-> FALSE]
     /\ UNCHANGED <<prevParams, returned, initialArgs, nextRef, codecVars>>

(***************************************************************************)
(* The event handlers of initModule.                                       *)
(***************************************************************************)

\* isStory(data) ? data.args : undefined
storyArgsOf(data) == IF data.story THEN Defined(data.args) ELSE Undefined

\* The filter dropped: every entry of args is kept.
customizedArgsAll(args, baseline) == args

\* The reduce of both diff handlers: the entries of args whose value is not
\* deep-equal to baseline[key] (a key the baseline lacks reads undefined,
\* which no value equals).
customizedArgs(args, baseline) ==
  [k \in {x \in DOMAIN args :
            ~(x \in DOMAIN baseline /\ deepEqual(args[x], baseline[x]))}
    |-> args[k]]

\* `${path}${argsParam}` with argsParam = argsString.length ? `&args=...` : ''
navigateTarget(path, argsString) ==
  path \o (IF Len(argsString) > 0 THEN <<"&", "args", "=">> \o argsString ELSE <<>>)

\* The replace option dropped: the navigation pushes a history entry.
queryNavigatePush(path, custom) ==
  [url |-> navigateTarget(path, stringifyArgs(custom)), replace |-> FALSE]

queryNavigate(path, custom) ==
  [url |-> navigateTarget(path, stringifyArgs(custom)), replace |-> TRUE]

\* initialArgs[data.id] = storyArgs
trackInitialArgs(current, storyArgs) == storyArgs

\* initialArgs[data.id] = initialArgs[data.id] || storyArgs
keepInitialArgs(current, storyArgs) == IF current.def THEN current ELSE storyArgs

\* The spread reversed: the story's args override the URL's.
mergedArgsStoryWins(storyArgs, args) ==
  IF storyArgs.def THEN Spread(args, storyArgs.map) ELSE args

\* storyArgs ? {...storyArgs, ...args} : args
mergedArgs(storyArgs, args) ==
  IF storyArgs.def THEN Spread(storyArgs.map, args) ELSE args

SET_STORIES(data) ==
  LET storyArgs == storyArgsOf(data)
      queryArgs == getQueryParam("args")
      args == parseArgs(IF queryArgs.def THEN queryArgs.v ELSE <<>>)
  IN /\ initialArgs' = [initialArgs EXCEPT
                          ![data.id] = trackInitialArgs(@, storyArgs)]
     /\ effects' = [NoEffects EXCEPT
                      !.updateStoryArgs =
                         <<[id |-> data.id, args |-> mergedArgs(storyArgs, args)]>>]
     /\ last' = [op |-> "SET_STORIES", id |-> data.id, story |-> data.story,
                 args |-> storyArgs.map, input |-> EmptyMap, reused |-> FALSE]
     /\ UNCHANGED <<prevParams, returned, store, nextRef, codecVars>>

SET_CURRENT_STORY(data) ==
  LET storyArgs == storyArgsOf(data)
      baseline == keepInitialArgs(initialArgs[data.id], storyArgs)
      custom == customizedArgs(storyArgs.map, baseline.map)
  IN /\ initialArgs' = [initialArgs EXCEPT ![data.id] = baseline]
     /\ effects' = [NoEffects EXCEPT
                      !.navigate = <<queryNavigate(store.path, custom)>>]
     /\ last' = [op |-> "SET_CURRENT_STORY", id |-> data.id,
                 story |-> data.story, args |-> storyArgs.map,
                 input |-> EmptyMap, reused |-> FALSE]
     /\ UNCHANGED <<prevParams, returned, store, nextRef, codecVars>>

\* The handler capturing the event's args as a missing baseline.
STORY_ARGS_UPDATED_Capturing(storyId, args) ==
  LET baseline == keepInitialArgs(initialArgs[storyId], Defined(args))
  IN /\ initialArgs' = [initialArgs EXCEPT ![storyId] = baseline]
     /\ effects' = [NoEffects EXCEPT
                      !.navigate = <<queryNavigate(store.path,
                                       customizedArgs(args, baseline.map))>>]
     /\ last' = [op |-> "STORY_ARGS_UPDATED", id |-> storyId, story |-> TRUE,
                 args |-> args, input |-> EmptyMap, reused |-> FALSE]
     /\ UNCHANGED <<prevParams, returned, store, nextRef, codecVars>>

\* initialArgs[storyId][key] is a TypeError when initialArgs[storyId] is
\* undefined and args has an entry: the handler ends there, before navigating.
STORY_ARGS_UPDATED(storyId, args) ==
  LET baseline == initialArgs[storyId]
      throws == ~baseline.def /\ DOMAIN args # {}
  IN /\ effects' = IF throws THEN [NoEffects EXCEPT !.threw = TRUE]
                   ELSE [NoEffects EXCEPT
                           !.navigate = <<queryNavigate(store.path,
                                            customizedArgs(args, baseline.map))>>]
     /\ last' = [op |-> "STORY_ARGS_UPDATED", id |-> storyId, story |-> TRUE,
                 args |-> args, input |-> EmptyMap, reused |-> FALSE]
     /\ UNCHANGED <<prevParams, returned, store, initialArgs, nextRef, codecVars>>

(***************************************************************************)
(* The codec round trip, one step per function.                            *)
(***************************************************************************)
Encode ==
  /\ cStage = "args"
  /\ cString' = stringifyArgs(cArgs)
  /\ cStage' = "encoded"
  /\ UNCHANGED <<cArgs, cDecoded, urlVars>>

Decode ==
  /\ cStage = "encoded"
  /\ cDecoded' = parseArgs(cString)
  /\ cStage' = "decoded"
  /\ UNCHANGED <<cArgs, cString, urlVars>>

(***************************************************************************)
(* Inputs.                                                                 *)
(***************************************************************************)
Ids == {"X", "Y"}
Path == <<"/story/x">>

\* Maps with any subset of the keys of choices, each key taking one of its values.
PartialMaps(choices) ==
  UNION {[D -> UNION {choices[k] : k \in D}] : D \in SUBSET DOMAIN choices}
Choose(choices) ==
  {m \in PartialMaps(choices) : \A k \in DOMAIN m : m[k] \in choices[k]}

\* Args carried by story data and by STORY_ARGS_UPDATED.
EventArgs ==
  Choose([a |-> {Num(<<"1">>)}, b |-> {Num(<<"2">>), Num(<<"5">>)}])

\* fullAPI.getCurrentStoryData(): a story with args, or a group without.
StoryData ==
  {[id |-> i, story |-> TRUE, args |-> a] : i \in Ids, a \in EventArgs}
    \cup {[id |-> i, story |-> FALSE, args |-> EmptyMap] : i \in Ids}

\* Values of the passthrough parameter args: "b:5" and "a.k:9;y:1".
ArgsB5 == <<"b", ":", "5">>
ArgsNested == <<"a", ".", "k", ":", "9", ";", "y", ":", "1">>

NullValue == [isNull |-> TRUE, v |-> <<>>]
Value(s) == [isNull |-> FALSE, v |-> s]

\* Inputs of setQueryParams: passthrough keys, null values, a reserved key.
ParamInputs ==
  Choose([args |-> {NullValue, Value(ArgsB5), Value(ArgsNested)},
          foo |-> {NullValue, Value(<<"x">>)},
          panel |-> {Value(<<"right">>)}])

ModuleState(query, storyId) ==
  [location |-> [query |-> query], path |-> Path, storyId |-> storyId]

\* Inputs of setQueryParams in the full model: the args parameter only.
ArgsInputs == Choose([args |-> {NullValue, Value(ArgsB5), Value(ArgsNested)}])

\* Keys read through getQueryParam: one the store can hold, one it never does.
QueryKeys == {"args", "foo"}

\* Locations of the full model: with and without an args parameter.
StoreStates ==
  {ModuleState(q, <<>>) : q \in {EmptyMap, [args |-> ArgsB5, panel |-> <<"right">>]}}

\* Locations of the parser model: layout keys of both schemes, the legacy
\* story selection, and passthrough keys beside recognized ones.
PanelQueries ==
  Choose([panel |-> {<<"right">>, <<"bottom">>, <<"0">>, <<"left">>},
          panelRight |-> {<<"1">>},
          addons |-> {<<"0">>}])
NavQueries ==
  Choose([full |-> {<<"1">>},
          nav |-> {<<"0">>, <<"1">>},
          stories |-> {<<"0">>}])
ScenarioQueries ==
  {[full |-> <<"1">>, panel |-> <<"right">>, nav |-> <<"0">>]}
IdQueries ==
  Choose([selectedKind |-> {<<"Button">>}, selectedStory |-> {<<"Primary">>},
          addonPanel |-> {<<"actions">>}])
PassQueries ==
  Choose([args |-> {ArgsB5, ArgsNested}, foo |-> {<<"x">>},
          panel |-> {<<"right">>}, path |-> {Path}])

ParserStates ==
  {ModuleState(q, <<>>) :
     q \in PanelQueries \cup NavQueries \cup ScenarioQueries \cup PassQueries}
    \cup {ModuleState(q, id) : q \in IdQueries, id \in {<<>>, <<"button--large">>}}

\* Args maps of the codec round trip: every leaf type, nesting, an empty
\* nested object, and a value holding a delimiter.
CodecArgs ==
  Choose([a |-> {Str(<<"x">>), Str(<<"1">>), Num(<<"1">>), Bool(<<"true">>),
                 Str(<<"x", ";", "y">>)},
          b |-> {Str(<<"x">>), Num(<<"5">>), Obj(EmptyMap),
                 Obj([k |-> [t |-> "str", s |-> <<"x">>]]),
                 Obj([k |-> [t |-> "num", s |-> <<"1">>]])}])

(***************************************************************************)
(* The handlers driven from fullAPI's story store: the data of an event is *)
(* fullAPI.getCurrentStoryData() for the story it is about, and an edit    *)
(* of a story's args is what STORY_ARGS_UPDATED reports.                   *)
(***************************************************************************)
StoreEvents == {"SET_STORIES", "SET_CURRENT_STORY"}
NotObserved == [events |-> {}, first |-> "", args |-> EmptyMap]

\* The record of one more of the two events handled for a story.
Observe(seen, event, args) ==
  IF seen.events = {}
  THEN [events |-> {event}, first |-> event, args |-> args]
  ELSE [seen EXCEPT !.events = @ \cup {event}]

\* fullAPI.getCurrentStoryData() with story id the current one.
getCurrentStoryData(id) == [id |-> id, story |-> TRUE, args |-> stories[id]]

\* SET_STORIES while story id is the current one.
LoadStories(id) ==
  /\ SET_STORIES(getCurrentStoryData(id))
  /\ observed' = [observed EXCEPT ![id] = Observe(@, "SET_STORIES", stories[id])]
  /\ UNCHANGED stories

\* SET_CURRENT_STORY on the selection of story id.
SelectStory(id) ==
  /\ SET_CURRENT_STORY(getCurrentStoryData(id))
  /\ observed' = [observed EXCEPT
                    ![id] = Observe(@, "SET_CURRENT_STORY", stories[id])]
  /\ UNCHANGED stories

\* The args of story id edited to args, reported by STORY_ARGS_UPDATED.
EditArgs(id, args) ==
  /\ stories[id] # args
  /\ STORY_ARGS_UPDATED(id, args)
  /\ stories' = [stories EXCEPT ![id] = args]
  /\ UNCHANGED observed

\* Args a story starts with and is edited to.
OrderArgs == {[a |-> Num(<<"1">>)], [a |-> Num(<<"1">>), b |-> Num(<<"2">>)],
              [a |-> Num(<<"1">>), b |-> Num(<<"5">>)]}

(***************************************************************************)
(* Specifications.                                                         *)
(***************************************************************************)
NoOp == [op |-> "none", id |-> "", story |-> FALSE, args |-> EmptyMap,
         input |-> EmptyMap, reused |-> FALSE]

\* After init has built the api and before any state was returned: the store
\* holds the route's path and no customQueryParams, the memo is empty.
InitUrl ==
  /\ prevParams = [def |-> FALSE, ref |-> 0, map |-> EmptyMap]
  /\ returned = [layout |-> EmptyMap, selectedPanel |-> <<>>,
                 location |-> [query |-> EmptyMap], path |-> Path,
                 customQueryParams |-> [def |-> FALSE, ref |-> 0, map |-> EmptyMap],
                 storyId |-> <<>>]
  /\ store = [path |-> Path, customQueryParams |-> Undefined]
  /\ initialArgs = [i \in Ids |-> Undefined]
  /\ nextRef = 1
  /\ last = NoOp
  /\ effects = NoEffects

InitCodec(stage, argsSet) ==
  /\ cArgs \in argsSet
  /\ cString = <<>>
  /\ cDecoded = EmptyMap
  /\ cStage = stage

\* The story store is not part of a run: it holds no args and stays so.
InitStories(argsSet) ==
  /\ stories \in [Ids -> argsSet]
  /\ observed = [i \in Ids |-> NotObserved]

Init == InitUrl /\ InitCodec("idle", {EmptyMap}) /\ InitStories({EmptyMap})

Next ==
  \/ \E state \in StoreStates :
       initialUrlSupport(state) /\ UNCHANGED storyVars
  \/ \E input \in ArgsInputs : setQueryParams(input) /\ UNCHANGED storyVars
  \/ \E data \in StoryData : SET_STORIES(data) /\ UNCHANGED storyVars
  \/ \E data \in StoryData : SET_CURRENT_STORY(data) /\ UNCHANGED storyVars
  \/ \E id \in Ids, args \in EventArgs :
       STORY_ARGS_UPDATED(id, args) /\ UNCHANGED storyVars
  \/ \E key \in QueryKeys : CallGetQueryParam(key) /\ UNCHANGED storyVars
  \/ CallGetUrlState /\ UNCHANGED storyVars

Spec == Init /\ [][Next]_vars

\* The parser and the query parameter API over the parser's locations.
NextUrl ==
  \/ \E state \in ParserStates :
       initialUrlSupport(state) /\ UNCHANGED storyVars
  \/ \E input \in ParamInputs : setQueryParams(input) /\ UNCHANGED storyVars

SpecUrl == Init /\ [][NextUrl]_vars

\* The codec applied to each args map of CodecArgs.
InitCodecSpec ==
  InitUrl /\ InitCodec("args", CodecArgs) /\ InitStories({EmptyMap})

NextCodec ==
  \/ Encode /\ UNCHANGED storyVars
  \/ Decode /\ UNCHANGED storyVars

SpecCodec == InitCodecSpec /\ [][NextCodec]_vars

\* The three event handlers over a story store whose stories start with any
\* args of OrderArgs and are edited to any other.
InitOrder == InitUrl /\ InitCodec("idle", {EmptyMap}) /\ InitStories(OrderArgs)

NextOrder ==
  \/ \E id \in Ids : LoadStories(id)
  \/ \E id \in Ids : SelectStory(id)
  \/ \E id \in Ids, args \in OrderArgs : EditArgs(id, args)

SpecOrder == InitOrder /\ [][NextOrder]_vars

(***************************************************************************)
(* Claims.                                                                 *)
(***************************************************************************)
DiffOps == {"SET_CURRENT_STORY", "STORY_ARGS_UPDATED"}

\* The reserved keys of the query-string grammar.
ReservedKeys == {"full", "panel", "nav", "addons", "panelRight", "stories",
                 "addonPanel", "selectedKind", "selectedStory", "path"}
Passthrough(query) == [k \in DOMAIN query \ ReservedKeys |-> query[k]]

ArgsSuffix(url, path) ==
  IF Len(url) >= Len(path) + 3 THEN SubSeq(url, Len(path) + 4, Len(url)) ELSE <<>>

\* C1: once a baseline has been captured for an item id, no later event
\* changes or removes it.  The SET_STORIES handler assigns
\* initialArgs[data.id] unconditionally, so this fails.
C1_BaselineCapturedOnce ==
  [][\A i \in Ids : initialArgs[i].def => initialArgs'[i] = initialArgs[i]]_vars

\* C2: every navigation requested by the 'active item changed' or 'args
\* updated' handler goes to the current path followed by an args fragment
\* that holds only keys whose current value is not deep-equal to the
\* baseline's; with no such key the target is the path alone; and baseline
\* {a:1,b:2} with args {a:1,b:5} yields exactly "&args=b:5".
C2_DiffMinimal ==
  last.op \in DiffOps =>
    \A n \in 1..Len(effects.navigate) :
      LET url == effects.navigate[n].url
          baseline == initialArgs[last.id]
          differing == {k \in DOMAIN last.args :
                          ~(/\ baseline.def
                            /\ k \in DOMAIN baseline.map
                            /\ last.args[k] = baseline.map[k])}
      IN /\ SubSeq(url, 1, Len(store.path)) = store.path
         /\ DOMAIN parseArgs(ArgsSuffix(url, store.path)) \subseteq differing
         /\ differing = {} => url = store.path
         /\ differing # {} =>
              SubSeq(url, Len(store.path) + 1, Len(store.path) + 3)
                = <<"&", "args", "=">>
         /\ (/\ baseline = Defined([a |-> Num(<<"1">>), b |-> Num(<<"2">>)])
             /\ last.args = [a |-> Num(<<"1">>), b |-> Num(<<"5">>)])
              => url = store.path \o <<"&", "args", "=", "b", ":", "5">>

C2_Witness ==
  /\ last.op = "STORY_ARGS_UPDATED"
  /\ initialArgs[last.id] = Defined([a |-> Num(<<"1">>), b |-> Num(<<"2">>)])
  /\ last.args = [a |-> Num(<<"1">>), b |-> Num(<<"5">>)]
  /\ effects.navigate =
       <<[url |-> Path \o <<"&", "args", "=", "b", ":", "5">>, replace |-> TRUE]>>

\* C3: a diff handler that finds no baseline for its item id does not fail:
\* it requests navigation to the current path with no args suffix.  The
\* 'args updated' handler reads initialArgs[storyId][key] of an undefined
\* baseline and throws, so this fails.
C3_MissingBaselineIsEmptyDiff ==
  (last.op \in DiffOps /\ ~initialArgs[last.id].def) =>
    /\ ~effects.threw
    /\ effects.navigate = <<[url |-> store.path, replace |-> TRUE]>>

\* C4 as stated: where both schemes set a layout field, the current-scheme
\* value is the parsed one (panel over panelRight/addons, nav over stories).
C4_CurrentSchemeWins ==
  last.op = "init" =>
    LET query == returned.location.query
        layout == returned.layout
        panel == Get(query, "panel")
    IN /\ panel \in {<<"right">>, <<"bottom">>} =>
            "panelPosition" \in DOMAIN layout /\ layout.panelPosition = panel[1]
       /\ panel = <<"0">> =>
            "showPanel" \in DOMAIN layout /\ layout.showPanel = "false"
       /\ Get(query, "nav") = <<"0">> =>
            "showNav" \in DOMAIN layout /\ layout.showNav = "false"

\* C4 as amended: the legacy keys are evaluated last, so panelRight=1 gives
\* panelPosition "right" whatever panel is and panel decides the position
\* only without it; showPanel and showNav are only ever set to false, by
\* either scheme, so those keys cannot conflict.
C4_LegacySchemeWins ==
  last.op = "init" =>
    LET query == returned.location.query
        layout == returned.layout
        panel == Get(query, "panel")
        position == IF Get(query, "panelRight") = <<"1">> THEN <<"right">>
                    ELSE IF panel \in {<<"right">>, <<"bottom">>} THEN panel
                    ELSE <<>>
    IN /\ "panelPosition" \in DOMAIN layout <=> position # <<>>
       /\ position # <<>> => layout.panelPosition = position[1]
       /\ "showPanel" \in DOMAIN layout
            <=> (panel = <<"0">> \/ Get(query, "addons") = <<"0">>)
       /\ "showNav" \in DOMAIN layout
            <=> (Get(query, "nav") = <<"0">> \/ Get(query, "stories") = <<"0">>)
       /\ "showPanel" \in DOMAIN layout => layout.showPanel = "false"
       /\ "showNav" \in DOMAIN layout => layout.showNav = "false"

C4_Witness ==
  /\ last.op = "init"
  /\ returned.location.query = [panel |-> <<"bottom">>, panelRight |-> <<"1">>]
  /\ returned.layout = [panelPosition |-> "right"]

\* C5: setQueryParams with an input whose values are all null leaves the
\* stored passthrough map unchanged and calls setState not at all, also on a
\* store that holds no customQueryParams yet.  There deepEqual(undefined, {})
\* is false and {} is committed, so this fails.
C5_NullIsNoop ==
  [][(/\ last'.op = "setQueryParams"
      /\ DOMAIN last'.input # {}
      /\ \A k \in DOMAIN last'.input : last'.input[k].isNull)
       => (store' = store /\ effects'.setState = <<>>)]_vars

\* C6: setQueryParams calls setState (once, with the merged map) exactly
\* when the merged map is not deep-equal to the current one; so a call
\* repeating the input of the call right before it calls setState not at all.
C6_EqualityGate ==
  [][last'.op = "setQueryParams" =>
       LET current == store.customQueryParams
           input == last'.input
           merged == [k \in DOMAIN current.map
                              \cup {x \in DOMAIN input : ~input[x].isNull} |->
                        IF k \in DOMAIN input /\ ~input[k].isNull
                        THEN input[k].v ELSE current.map[k]]
           same == current.def /\ current.map = merged
       IN /\ same => effects'.setState = <<>> /\ store' = store
          /\ ~same => /\ effects'.setState = <<merged>>
                      /\ store'.customQueryParams = Defined(merged)
          /\ (last.op = "setQueryParams" /\ last.input = input)
               => effects'.setState = <<>>]_vars

\* A repeated call with a non-null value: the second one committed nothing.
C6_Witness ==
  /\ last.op = "setQueryParams"
  /\ last.input = [foo |-> Value(<<"x">>)]
  /\ store.customQueryParams = Defined([foo |-> <<"x">>])
  /\ effects.setState = <<>>

\* C7: a parser call whose location has the same passthrough portion as
\* the location of the parser call before it returns the same passthrough
\* object as that call, whatever the recognized keys of the two locations;
\* with a different passthrough portion it returns a new object.
C7_MemoStability ==
  [][(last'.op = "init" /\ returned.customQueryParams.def) =>
       LET before == Passthrough(returned.location.query)
           now == Passthrough(returned'.location.query)
       IN /\ before = now =>
               returned'.customQueryParams.ref = returned.customQueryParams.ref
          /\ before # now =>
               returned'.customQueryParams.ref = nextRef]_vars

\* The memoized object returned for a location with a recognized key and a
\* passthrough key.
C7_Witness ==
  /\ last.op = "init"
  /\ last.reused
  /\ returned.location.query = [args |-> ArgsB5, panel |-> <<"right">>]
  /\ returned.customQueryParams.map = [args |-> ArgsB5]

\* C8: the passthrough map, as returned by the parser and as held in the
\* store, contains no reserved key.  setQueryParams merges any key of its
\* input into the stored map, so this fails.
C8_NoReservedKey ==
  /\ DOMAIN returned.customQueryParams.map \cap ReservedKeys = {}
  /\ DOMAIN store.customQueryParams.map \cap ReservedKeys = {}

\* C9: for every args map whose keys and values hold no delimiter character,
\* number, boolean and nested values included, parseArgs(stringifyArgs(a))
\* is deep-equal to a.  Every decoded leaf is a string and an empty nested
\* object is not encoded, so this fails.
Delimiters == {";", ":", "=", "."}
DelimiterFree(s) == \A i \in 1..Len(s) : s[i] \notin Delimiters
DelimiterFreeArgs(args) ==
  \A k \in DOMAIN args :
    /\ k \notin Delimiters
    /\ DelimiterFree(args[k].s)
    /\ \A sub \in DOMAIN args[k].o :
         sub \notin Delimiters /\ DelimiterFree(args[k].o[sub].s)

C9_RoundTrip ==
  (cStage = "decoded" /\ DelimiterFreeArgs(cArgs)) => deepEqual(cDecoded, cArgs)

C12_AlwaysReplace ==
  last.op \in DiffOps =>
    \A n \in 1..Len(effects.navigate) : effects.navigate[n].replace = TRUE

C12_Witness ==
  /\ last.op = "SET_CURRENT_STORY"
  /\ Len(effects.navigate) = 1
  /\ effects.navigate[1].replace = TRUE
  /\ effects.navigate[1].url # store.path

\* C13: the parser returns an explicit story id verbatim; without one it
\* returns toId(selectedKind, selectedStory) when both are present,
\* sanitize(selectedKind) when only selectedKind is, and no id otherwise
\* (selectedStory alone included).
C13_IdentifierResolution ==
  last.op = "init" =>
    LET query == returned.location.query
        hasKind == "selectedKind" \in DOMAIN query
        hasStory == "selectedStory" \in DOMAIN query
        explicit == last.input.storyId
    IN returned.storyId =
         IF explicit # <<>> THEN explicit
         ELSE IF hasKind /\ hasStory
         THEN toId(query["selectedKind"], query["selectedStory"])
         ELSE IF hasKind THEN sanitize(query["selectedKind"])
         ELSE <<>>

C13_Witness ==
  /\ last.op = "init"
  /\ last.input.storyId = <<>>
  /\ returned.location.query =
       [selectedKind |-> <<"Button">>, selectedStory |-> <<"Primary">>]
  /\ returned.storyId = <<"button", "--", "primary">>

C16_MergeOnly ==
  [][last'.op = "setQueryParams" =>
       LET before == store.customQueryParams.map
           after == store'.customQueryParams.map
           input == last'.input
           supplied == {k \in DOMAIN input : ~input[k].isNull}
       IN /\ store'.customQueryParams.def
          /\ DOMAIN after = DOMAIN before \cup supplied
          /\ \A k \in supplied : after[k] = input[k].v
          /\ \A k \in DOMAIN before \ supplied : after[k] = before[k]]_vars

C16_Witness ==
  /\ last.op = "setQueryParams"
  /\ last.input = [args |-> NullValue, foo |-> Value(<<"x">>)]
  /\ store.customQueryParams = Defined([args |-> ArgsB5, foo |-> <<"x">>])
  /\ effects.setState = <<[args |-> ArgsB5, foo |-> <<"x">>]>>

\* C19: the STORY_ARGS_UPDATED handler never writes initialArgs: handling
\* the event for any id, with or without a baseline, leaves the baseline of
\* every id as it was, so an id first seen by this event keeps no baseline.
C19_ArgsUpdatedKeepsBaseline ==
  [][last'.op = "STORY_ARGS_UPDATED" => initialArgs' = initialArgs]_vars

C19_Witness ==
  /\ last.op = "STORY_ARGS_UPDATED"
  /\ last.id = "X"
  /\ DOMAIN last.args # {}
  /\ ~initialArgs["X"].def
  /\ initialArgs["Y"].def

\* C20: the memo never makes the parser return stale data: the passthrough
\* map a call returns is deep-equal to the non-recognized keys of that call's
\* own location, and prevParams is the very object the latest call returned.
C20_MemoNeverStale ==
  returned.customQueryParams.def =>
    /\ deepEqual(returned.customQueryParams.map,
                 Passthrough(returned.location.query))
    /\ prevParams = returned.customQueryParams

C20_Witness ==
  /\ last.op = "init"
  /\ ~last.reused
  /\ returned.customQueryParams.ref = 2
  /\ returned.customQueryParams.map = [foo |-> <<"x">>]
  /\ prevParams = returned.customQueryParams

\* C17: getQueryParam(key) returns undefined when the store holds no
\* passthrough map or the map has no such key, and the stored value
\* otherwise; getQueryParam and getUrlState leave the store, the parser memo
\* and the baselines unchanged and call neither setState nor navigate.
C17_GettersReadOnly ==
  [][/\ last'.op = "getQueryParam" =>
          LET current == store.customQueryParams
              key == last'.input.key
              present == current.def /\ key \in DOMAIN current.map
          IN /\ Len(effects'.returns) = 1
             /\ effects'.returns[1].def <=> present
             /\ present => effects'.returns[1].v = current.map[key]
     /\ last'.op \in {"getQueryParam", "getUrlState"} =>
          /\ store' = store
          /\ prevParams' = prevParams
          /\ initialArgs' = initialArgs
          /\ effects'.navigate = <<>>
          /\ effects'.setState = <<>>
          /\ effects'.updateStoryArgs = <<>>]_vars

C17_Witness ==
  /\ last.op = "getQueryParam"
  /\ last.input.key = "foo"
  /\ store.customQueryParams = Defined([args |-> ArgsB5])
  /\ effects.returns = <<NoValue>>

\* C18: each SET_CURRENT_STORY or STORY_ARGS_UPDATED event issues exactly
\* one navigation request; SET_STORIES, setQueryParams, getQueryParam and
\* getUrlState issue none.  STORY_ARGS_UPDATED for an id without a baseline
\* throws before it navigates (C3), so this fails.
C18_OneNavigationPerEvent ==
  /\ last.op \in DiffOps => Len(effects.navigate) = 1
  /\ last.op \in {"SET_STORIES", "setQueryParams", "getQueryParam", "getUrlState"}
       => Len(effects.navigate) = 0

\* C11: SET_CURRENT_STORY for a story without a baseline captures the
\* story's current args as its baseline and, the diff being empty, requests
\* navigation to the current path with no args suffix; and the baseline of a
\* story first captured that way stays the captured one, so that every later
\* diff is taken against it.  A later SET_STORIES assigns the story's then
\* current args as baseline (C1), so this fails.
C11_CaptureOnSelect ==
  [][/\ (last'.op = "SET_CURRENT_STORY" /\ ~initialArgs[last'.id].def) =>
          /\ initialArgs'[last'.id] = Defined(last'.args)
          /\ effects'.navigate = <<[url |-> store.path, replace |-> TRUE]>>
     /\ \A i \in Ids :
          observed'[i].first = "SET_CURRENT_STORY" =>
            initialArgs'[i] = Defined(observed'[i].args)]_vars

\* C15: for one story, the baseline held once both SET_STORIES and
\* SET_CURRENT_STORY have been handled is the same whichever came first,
\* also with an edit of the story's args in between: it is the args the
\* story had at the first of the two (capture is lazy), and a later
\* STORY_ARGS_UPDATED is diffed against those.  With SET_CURRENT_STORY first
\* and an edit before SET_STORIES, the baseline is the edited args (C1), so
\* this fails.
C15_OrderIndependent ==
  \A i \in Ids :
    observed[i].events = StoreEvents =>
      /\ initialArgs[i] = Defined(observed[i].args)
      /\ (last.op = "STORY_ARGS_UPDATED" /\ last.id = i) =>
           effects.navigate =
             <<[url |-> navigateTarget(store.path,
                          stringifyArgs(customizedArgs(last.args, observed[i].args))),
                replace |-> TRUE]>>

====
